---- MODULE Spec2Model ----
(***************************************************************************)
(* pyfar: the deprecation policy exercised by tests/test_deprecations.py   *)
(* and the plot facade of pyfar/plot/line.py.                              *)
(*                                                                         *)
(* The table of guarded symbols (removal version, expected error, notice   *)
(* pattern) and the version comparison are taken from the test file; the   *)
(* facade functions are taken from line.py.  The library code behind the   *)
(* other guarded symbols (Coordinates, dsp, io, signals, the filters) is   *)
(* not part of the sources at hand: its gate is modelled from the          *)
(* specification's section 4.1.                                            *)
(***************************************************************************)
EXTENDS Naturals, Sequences, FiniteSets

VARIABLES
    version,    \* pf.__version__: the running version string, fixed per run
    coords,     \* the Coordinates object the calls act on
    last,       \* the last call: symbol, inputs, outcome, notices, steps
    streak      \* the run of consecutive calls of last.sym

vars == <<version, coords, last, streak>>

-----------------------------------------------------------------------------
(* Bounds *)

MaxMajor == 1
MaxMinor == 10
MaxPatch == 1
MaxCalls == 2
MaxShOrder == 2
MaxFilterOrder == 2

-----------------------------------------------------------------------------
(* Version strings.  A version string "M.m.p" is the sequence of its three *)
(* decimal numerals, each numeral the sequence of its digits, so "0.10.0"  *)
(* is <<<<0>>, <<1, 0>>, <<0>>>>.                                          *)

Numeral(n) == IF n < 10 THEN <<n>> ELSE <<n \div 10, n % 10>>

VersionStr(M, m, p) == <<Numeral(M), Numeral(m), Numeral(p)>>

Versions ==
    {VersionStr(M, m, p) : M \in 0..MaxMajor, m \in 0..MaxMinor, p \in 0..MaxPatch}

RECURSIVE NumeralValue(_)
NumeralValue(d) ==
    IF d = <<>> THEN 0
    ELSE 10 * NumeralValue(SubSeq(d, 1, Len(d) - 1)) + d[Len(d)]

\* packaging.version.parse: the release tuple of a version string
VersionParse(s) == <<NumeralValue(s[1]), NumeralValue(s[2]), NumeralValue(s[3])>>

\* Version.__ge__: release tuples compared component by component, as numbers
VersionGE(a, b) ==
    \/ a[1] > b[1]
    \/ a[1] = b[1] /\ a[2] > b[2]
    \/ a[1] = b[1] /\ a[2] = b[2] /\ a[3] >= b[3]

\* the characters of a numeral, above the dot that separates numerals
NumeralChars(d) == [i \in 1..Len(d) |-> d[i] + 1]

\* the characters of "M.m.p": the dot is 0 and sorts below every digit
VersionChars(s) ==
    NumeralChars(s[1]) \o <<0>> \o NumeralChars(s[2]) \o <<0>>
    \o NumeralChars(s[3])

RECURSIVE StringGE(_, _)
StringGE(a, b) ==
    IF b = <<>> THEN TRUE
    ELSE IF a = <<>> THEN FALSE
    ELSE IF a[1] # b[1] THEN a[1] > b[1]
    ELSE StringGE(Tail(a), Tail(b))

\* the two version strings compared as strings: pf.__version__ >= r
AtOrPastAsStrings(v, r) == StringGE(VersionChars(v), VersionChars(r))

\* version.parse(pf.__version__) >= version.parse(r)
AtOrPast(v, r) == VersionGE(VersionParse(v), VersionParse(r))

V050 == VersionStr(0, 5, 0)
V060 == VersionStr(0, 6, 0)
V080 == VersionStr(0, 8, 0)

-----------------------------------------------------------------------------
(* Guarded symbols: a symbol is a callable and, where the deprecation is   *)
(* of one argument or argument value, that argument.                       *)

Sym(fn, arg) == [fn |-> fn, arg |-> arg]

NoSym == Sym("none", "")

FilterNames == {"butter", "cheby1", "cheby2", "ellip", "peq"}

FilterSymbols == {Sym(f, "") : f \in FilterNames}

Removed050 ==
    {Sym(f, "") : f \in {"coords.get_nearest_k", "coords.get_nearest_cart",
                         "coords.get_nearest_sph", "coords.get_slice",
                         "pf.io.read_wav", "pf.io.write_wav",
                         "pf.signals.linear_sweep",
                         "pf.signals.exponential_sweep"}}
    \cup FilterSymbols

XscaleFunctions ==
    {"freq", "phase", "group_delay", "time_freq", "freq_phase",
     "freq_group_delay"}

XscaleSymbols == {Sym(f, "xscale='linear'") : f \in XscaleFunctions}

YscaleSymbols == {Sym("spectrogram", "yscale='linear'")}

ScaleSymbols == XscaleSymbols \cup YscaleSymbols

TimeUnitNone == Sym("_check_time_unit", "None")

PadZerosDeprecatedModes == {"before", "after"}

PadZerosSymbols == {Sym("pad_zeros", m) : m \in PadZerosDeprecatedModes}

CoordsGetters ==
    {Sym(f, "") : f \in {"coords.get_cart", "coords.sh_order",
                         "coords.get_cyl", "coords.get_sph",
                         "coords.systems"}}

CoordsSetters ==
    {Sym(f, "1,1,1") : f \in {"coords.set_cart", "coords.set_cyl",
                              "coords.set_sph"}}

CoordsConstructors ==
    {Sym("pf.Coordinates", a) : a \in {"sh_order=1", "domain='sph'",
                                       "domain='sph', unit='deg'",
                                       "domain='sph', convention='top_colat'"}}

Statements080 == CoordsGetters \cup CoordsSetters \cup CoordsConstructors

ShOrderSetter == Sym("coords.sh_order", "=")

SignalLen == Sym("len(Signal)", "")

FindSymbols == {Sym("coords.find_nearest_k", ""), Sym("coords.find_slice", "")}

Removed080 ==
    Statements080 \cup {ShOrderSetter, SignalLen} \cup FindSymbols
    \cup PadZerosSymbols

Removed060 == ScaleSymbols \cup {TimeUnitNone}

GuardedSymbols == Removed050 \cup Removed060 \cup Removed080

\* a cutover taken one release group too early: the 0.8.0 symbols go at 0.6.0
RemovalVersionEarly(s) ==
    IF s \in Removed050 THEN V050 ELSE V060

\* a cutover that is never applied to the renamed functions of 0.5.0
RemovalVersionLate(s) ==
    IF s \in Removed060 THEN V060 ELSE V080

\* the version a test compares pf.__version__ with before it expects the error
RemovalVersion(s) ==
    IF s \in Removed050 THEN V050
    ELSE IF s \in Removed060 THEN V060
    ELSE V080

\* every removal reported as a missing member, argument values included
RemovalErrorAlwaysAttribute(s) == "AttributeError"

\* a removed symbol failing with a generic runtime error
RemovalErrorGeneric(s) ==
    IF s = TimeUnitNone \/ s \in PadZerosSymbols THEN "ValueError"
    ELSE IF s = SignalLen THEN "TypeError"
    ELSE "RuntimeError"

\* the exception class the test's pytest.raises names
RemovalError(s) ==
    IF s = TimeUnitNone \/ s \in PadZerosSymbols THEN "ValueError"
    ELSE IF s = SignalLen THEN "TypeError"
    ELSE "AttributeError"

\* the text the test's pytest.warns matches the notice against
NoticePattern(s) ==
    IF s \in XscaleSymbols THEN "The xscale parameter will be removed"
    ELSE IF s \in YscaleSymbols THEN "The yscale parameter will be removed"
    ELSE IF s = TimeUnitNone THEN "unit=None will be deprecated"
    ELSE IF s \in PadZerosSymbols
        THEN "Mode \"before\" and \"after\" will be renamed into"
    ELSE IF s = SignalLen THEN "len(Signal) will be deprecated"
    ELSE IF s = Sym("coords.find_nearest_k", "")
        THEN "This function will be deprecated in pyfar 0.8.0 in favor"
    ELSE IF s = Sym("coords.find_slice", "")
        THEN "This function will be deprecated in pyfar 0.8.0. Use "
    ELSE IF s = ShOrderSetter THEN "This function will be deprecated"
    ELSE IF s \in Statements080 THEN "This function will be"
    ELSE "will be deprecated"

-----------------------------------------------------------------------------
(* Call records *)

\* the verbose name a filter function was renamed to
Replacement(f) ==
    CASE f = "butter" -> "butterworth"
      [] f = "cheby1" -> "chebyshev1"
      [] f = "cheby2" -> "chebyshev2"
      [] f = "ellip"  -> "elliptic"
      [] f = "peq"    -> "bell"

\* the replacement a notice points the caller to, where the renaming is known
Guidance(s) == IF s \in FilterSymbols THEN Replacement(s.fn) ELSE ""

Notice(s) ==
    [category    |-> "PyfarDeprecationWarning",
     text        |-> NoticePattern(s),
     removal     |-> RemovalVersion(s),
     replacement |-> Guidance(s)]

Result(fn, n) == [fn |-> fn, n |-> n]

NoResult == Result("none", 0)

Step(op, arg, kw, on) == [op |-> op, arg |-> arg, kw |-> kw, on |-> on]

\* a call that returned, with the notices it emitted on the way
Returned(s, input, value, notices, result, trace) ==
    [sym |-> s, input |-> input, value |-> value, outcome |-> "returned",
     error |-> "none", notices |-> notices, result |-> result,
     trace |-> trace]

\* a call that raised
Raised(s, input, value, error, trace) ==
    [sym |-> s, input |-> input, value |-> value, outcome |-> "raised",
     error |-> error, notices |-> <<>>, result |-> NoResult,
     trace |-> trace]

NoCall ==
    [sym |-> NoSym, input |-> "", value |-> 0, outcome |-> "none",
     error |-> "none", notices |-> <<>>, result |-> NoResult,
     trace |-> <<>>]

\* whether the call l was given the input its function works on
ValidInput(l) == l.input \in {"", "Signal"}

\* whether the call l emitted a notice that names its symbol's removal version
NamesRemoval(l) ==
    \E i \in 1..Len(l.notices) :
        l.notices[i].removal = RemovalVersion(l.sym)

\* the call l is recorded as the last call; the run of consecutive calls of
\* one symbol grows or starts anew
Record(l) ==
    /\ l.sym = last.sym => streak.n < MaxCalls
    /\ last' = l
    /\ streak' =
        LET same == l.sym = last.sym
            w    == IF NamesRemoval(l) THEN 1 ELSE 0
            k    == IF ValidInput(l) THEN 1 ELSE 0
        IN  [n      |-> IF same THEN streak.n + 1 ELSE 1,
             ok     |-> IF same THEN streak.ok + k ELSE k,
             warned |-> IF same THEN streak.warned + w ELSE w]

-----------------------------------------------------------------------------
(* The deprecation gate (specification, section 4.1) *)

\* running-version >= removal-version: the symbol is refused
GateRefuses(s) == AtOrPast(version, RemovalVersion(s))

\* a guarded call: refused with the symbol's removal error, or executed with
\* one notice
Gated(s, value, result) ==
    IF GateRefuses(s)
    THEN Raised(s, "", value, RemovalError(s), <<>>)
    ELSE Returned(s, "", value, <<Notice(s)>>, result, <<>>)

\* a call of a symbol under no deprecation
Ungated(s, value, result) == Returned(s, "", value, <<>>, result, <<>>)

-----------------------------------------------------------------------------
(* Guarded library symbols *)

PureSymbols ==
    (Removed050 \ FilterSymbols) \cup CoordsGetters \cup CoordsConstructors
    \cup FindSymbols

\* what a guarded function or method without side effect returns
PureResult(s) ==
    IF s = Sym("coords.sh_order", "") THEN Result(s.fn, coords.sh_order)
    ELSE Result(s.fn, 0)

\* a removed or renamed function, method, getter or constructor argument
CallDeprecatedFunction(s) ==
    /\ s \in PureSymbols
    /\ Record(Gated(s, 0, PureResult(s)))
    /\ UNCHANGED <<version, coords>>

\* coords.set_cart(1,1,1), coords.set_cyl(1,1,1), coords.set_sph(1,1,1)
CallCoordsSetter(s) ==
    /\ s \in CoordsSetters
    /\ Record(Gated(s, 0, Result(s.fn, 0)))
    /\ coords' = IF GateRefuses(s) THEN coords
                 ELSE [coords EXCEPT !.points = "1,1,1"]
    /\ UNCHANGED version

\* coords.sh_order = v
SetShOrder(v) ==
    /\ Record(Gated(ShOrderSetter, v, Result("coords.sh_order", v)))
    /\ coords' = IF GateRefuses(ShOrderSetter) THEN coords
                 ELSE [coords EXCEPT !.sh_order = v]
    /\ UNCHANGED version

\* len(pf.Signal([1, 2, 3], 44100))
SignalLength ==
    /\ Record(Gated(SignalLen, 0, Result("len", 3)))
    /\ UNCHANGED <<version, coords>>

PadZerosRenamedModes == {"beginning", "end"}

\* pf.dsp.pad_zeros(signal, 5, mode)
PadZeros(mode) ==
    /\ Record(IF mode \in PadZerosDeprecatedModes
              THEN Gated(Sym("pad_zeros", mode), 5, Result("pad_zeros", 5))
              ELSE Ungated(Sym("pad_zeros", mode), 5, Result("pad_zeros", 5)))
    /\ UNCHANGED <<version, coords>>

TimeUnits == {"None", "s"}

\* pf.plot._utils._check_time_unit(unit)
CheckTimeUnit(unit) ==
    /\ Record(IF unit = "None"
              THEN Gated(TimeUnitNone, 0, Result("_check_time_unit", 0))
              ELSE Ungated(Sym("_check_time_unit", unit), 0,
                           Result("_check_time_unit", 0)))
    /\ UNCHANGED <<version, coords>>

ReplacementNames == {Replacement(f) : f \in FilterNames}

\* the filter of order N the function r constructs
FilterResult(r, N) == Result(r, N)

\* the deprecated name forwards its arguments to the replacement
DeprecatedFilterResult(f, N) == FilterResult(Replacement(f), N)

\* pfilt.butter(None, N, ...) and the other short names
CallDeprecatedFilter(f, N) ==
    /\ Record(Gated(Sym(f, ""), N, DeprecatedFilterResult(f, N)))
    /\ UNCHANGED <<version, coords>>

\* pfilt.butterworth(None, N, ...) and the other verbose names
CallFilter(r, N) ==
    /\ Record(Ungated(Sym(r, ""), N, FilterResult(r, N)))
    /\ UNCHANGED <<version, coords>>

-----------------------------------------------------------------------------
(* The plot facade (pyfar/plot/line.py) *)

Signals == {"Signal", "ndarray"}

Styles == {"light", "dark"}

\* keyword arguments a caller may add: none, or the xscale of the tests
Kwargs == {"", "xscale='linear'"}

\* the type check left out: every input passes
IsSignalUnchecked(signal) == signal \in Signals

\* if not isinstance(signal, Signal): raise TypeError(...)
IsSignal(signal) == signal = "Signal"

\* the Interaction attached before the layout is tightened
FacadeStepsInteractionFirst(signal, renderer, rarg, kw, style, kind, ikw, on) ==
    <<Step("isinstance", signal, "", ""),
      Step("style.context", style, "", ""),
      Step(renderer, rarg, kw, "")>>
    \o (IF kind = "" THEN <<>> ELSE <<Step("Interaction", kind, ikw, on)>>)
    \o <<Step("tight_layout", "", "", "")>>

\* the steps of a facade function on a Signal: the renderer runs inside the
\* style context, then tight_layout, then (where the function has one) the
\* Interaction on the axes named by on
FacadeSteps(signal, renderer, rarg, kw, style, kind, ikw, on) ==
    <<Step("isinstance", signal, "", ""),
      Step("style.context", style, "", ""),
      Step(renderer, rarg, kw, ""),
      Step("tight_layout", "", "", "")>>
    \o (IF kind = "" THEN <<>> ELSE <<Step("Interaction", kind, ikw, on)>>)

\* a facade function that refuses every call once the version is at or past
\* 0.6.0, as if the whole function had been removed with its parameter
FacadeGated(s, signal, renderer, rarg, kw, style, kind, ikw, on) ==
    IF ~IsSignal(signal)
    THEN Raised(s, signal, 0, "TypeError",
                <<Step("isinstance", signal, "", "")>>)
    ELSE IF AtOrPast(version, V060)
    THEN Raised(s, signal, 0, "AttributeError", <<>>)
    ELSE Returned(s, signal, 0, <<>>, Result(renderer, 0),
                  FacadeSteps(signal, renderer, rarg, kw, style, kind, ikw, on))

\* one facade function: the type check, the steps, and the renderer's axes
\* as the return value; no notice is emitted and the version is not read
Facade(s, signal, renderer, rarg, kw, style, kind, ikw, on) ==
    IF ~IsSignal(signal)
    THEN Raised(s, signal, 0, "TypeError",
                <<Step("isinstance", signal, "", "")>>)
    ELSE Returned(s, signal, 0, <<>>, Result(renderer, 0),
                  FacadeSteps(signal, renderer, rarg, kw, style, kind, ikw, on))

time(signal, style, kw) ==
    /\ Record(Facade(Sym("time", kw), signal, "_line._time", "", kw, style,
                     "LineXLin", kw, "ax"))
    /\ UNCHANGED <<version, coords>>

time_dB(signal, style, kw) ==
    /\ Record(Facade(Sym("time_dB", kw), signal, "_line._time_dB", "", kw,
                     style, "LineXLin", kw, "ax"))
    /\ UNCHANGED <<version, coords>>

freq(signal, style, kw) ==
    /\ Record(Facade(Sym("freq", kw), signal, "_line._freq", "", kw, style,
                     "LineXLog", kw, "ax"))
    /\ UNCHANGED <<version, coords>>

phase(signal, style, kw) ==
    /\ Record(Facade(Sym("phase", kw), signal, "_line._phase", "", kw, style,
                     "LineXLog", kw, "ax"))
    /\ UNCHANGED <<version, coords>>

group_delay(signal, style, kw) ==
    /\ Record(Facade(Sym("group_delay", kw), signal, "_line._group_delay", "",
                     kw, style, "LineXLog", kw, "ax"))
    /\ UNCHANGED <<version, coords>>

\* what the caller wrote for yscale: nothing, or one of the two values
YscaleArgs == {"", "yscale='linear'", "yscale='log'"}

\* the parameter's value: yscale='linear' is the default
Yscale(arg) == IF arg = "yscale='log'" THEN "log" ELSE "linear"

spectrogram(signal, style, yarg) ==
    /\ Record(Facade(Sym("spectrogram", yarg), signal,
                     "_line._spectrogram_cb", Yscale(yarg), "", style,
                     "spectrogram", "", "ax[0]"))
    /\ UNCHANGED <<version, coords>>

freq_phase(signal, style, kw) ==
    /\ Record(Facade(Sym("freq_phase", kw), signal, "_line._freq_phase", "",
                     kw, style, "LineXLog", kw, "ax[0]"))
    /\ UNCHANGED <<version, coords>>

freq_group_delay(signal, style, kw) ==
    /\ Record(Facade(Sym("freq_group_delay", kw), signal,
                     "_line._freq_group_delay", "", kw, style, "LineXLog",
                     kw, "ax[0]"))
    /\ UNCHANGED <<version, coords>>

custom_subplots(signal, style, kw) ==
    /\ Record(Facade(Sym("custom_subplots", kw), signal,
                     "_line._custom_subplots", "plots", kw, style, "", "",
                     ""))
    /\ UNCHANGED <<version, coords>>

\* the names line.py defines
FacadeFunctions ==
    {"time", "time_dB", "freq", "phase", "group_delay", "spectrogram",
     "freq_phase", "freq_group_delay", "custom_subplots"}

\* looking up a name the module does not define
MissingAttribute(s, signal) ==
    Raised(s, signal, 0, "AttributeError", <<>>)

\* time_freq, which the tests call and line.py does not define
time_freq(signal, kw) ==
    /\ "time_freq" \notin FacadeFunctions
    /\ Record(MissingAttribute(Sym("time_freq", kw), signal))
    /\ UNCHANGED <<version, coords>>

-----------------------------------------------------------------------------
(* The specification *)

Init ==
    /\ version \in Versions
    /\ coords = [sh_order |-> 0, points |-> "arange(6),0,0"]
    /\ last = NoCall
    /\ streak = [n |-> 0, ok |-> 0, warned |-> 0]

Next ==
    \/ \E s \in PureSymbols : CallDeprecatedFunction(s)
    \/ \E s \in CoordsSetters : CallCoordsSetter(s)
    \/ \E v \in 1..MaxShOrder : SetShOrder(v)
    \/ SignalLength
    \/ \E mode \in PadZerosDeprecatedModes \cup PadZerosRenamedModes :
          PadZeros(mode)
    \/ \E unit \in TimeUnits : CheckTimeUnit(unit)
    \/ \E f \in FilterNames, N \in 1..MaxFilterOrder :
          CallDeprecatedFilter(f, N)
    \/ \E r \in ReplacementNames, N \in 1..MaxFilterOrder : CallFilter(r, N)
    \/ \E sig \in Signals, st \in Styles, kw \in Kwargs : time(sig, st, kw)
    \/ \E sig \in Signals, st \in Styles, kw \in Kwargs : time_dB(sig, st, kw)
    \/ \E sig \in Signals, st \in Styles, kw \in Kwargs : freq(sig, st, kw)
    \/ \E sig \in Signals, st \in Styles, kw \in Kwargs : phase(sig, st, kw)
    \/ \E sig \in Signals, st \in Styles, kw \in Kwargs :
          group_delay(sig, st, kw)
    \/ \E sig \in Signals, st \in Styles, ya \in YscaleArgs :
          spectrogram(sig, st, ya)
    \/ \E sig \in Signals, st \in Styles, kw \in Kwargs :
          freq_phase(sig, st, kw)
    \/ \E sig \in Signals, st \in Styles, kw \in Kwargs :
          freq_group_delay(sig, st, kw)
    \/ \E sig \in Signals, st \in Styles, kw \in Kwargs :
          custom_subplots(sig, st, kw)
    \/ \E sig \in Signals, kw \in Kwargs : time_freq(sig, kw)

Spec == Init /\ [][Next]_vars

-----------------------------------------------------------------------------
(* Properties *)

\* the last call was a call of s with the input its function works on
Called(s) == last.sym = s /\ ValidInput(last)

\* the running version is at or past s's removal version
PostCutover(s) == AtOrPast(version, RemovalVersion(s))

\* the notice n is of the deprecation category and matches s's pattern
Matches(n, s) ==
    n.category = "PyfarDeprecationWarning" /\ n.text = NoticePattern(s)

\* the last call ran its symbol and emitted exactly one, matching, notice
ExecutedWithNotice(s) ==
    /\ last.outcome = "returned"
    /\ last.result # NoResult
    /\ Len(last.notices) = 1
    /\ Matches(last.notices[1], s)

\* the last call was refused with s's removal error and did nothing else
Refused(s) ==
    /\ last.outcome = "raised"
    /\ last.error = RemovalError(s)
    /\ last.notices = <<>>
    /\ last.trace = <<>>

\* C1: a call of a guarded symbol before its removal version emits exactly
\* one notice matching the symbol's pattern and still performs the symbol's
\* normal effect.
C1_NoticeAndEffect ==
    \A s \in GuardedSymbols :
        (Called(s) /\ ~PostCutover(s)) =>
            /\ Len(last.notices) = 1
            /\ Matches(last.notices[1], s)
            /\ last.outcome = "returned"
            /\ last.result # NoResult

\* C2: a call of a guarded symbol at or past its removal version raises the
\* symbol's removal error and has no side effect: the Coordinates object is
\* as before the call and nothing was rendered, laid out or attached.
C2_RefusedWithoutEffect ==
    [][\A s \in GuardedSymbols :
          (last'.sym = s /\ ValidInput(last') /\ PostCutover(s)) =>
              /\ last'.outcome = "raised"
              /\ last'.error = RemovalError(s)
              /\ last'.trace = <<>>
              /\ coords' = coords]_vars

\* C3: for every guarded symbol and every running version exactly one of the
\* two outcomes occurs: executed with a notice before the removal version,
\* refused at the removal version and at every later one.
C3_TotalAndExclusive ==
    \A s \in GuardedSymbols :
        Called(s) =>
            IF PostCutover(s)
            THEN Refused(s) /\ ~ExecutedWithNotice(s)
            ELSE ExecutedWithNotice(s) /\ ~Refused(s)

PadZerosBefore == Sym("pad_zeros", "before")

\* C4: pad_zeros with mode "before" succeeds with the renaming notice before
\* 0.8.0 and raises ValueError, not the missing-member error, from 0.8.0 on;
\* with the renamed modes it is callable at every version.
C4_PadZerosModes ==
    /\ Called(PadZerosBefore) =>
          IF AtOrPast(version, V080)
          THEN /\ last.outcome = "raised"
               /\ last.error = "ValueError"
               /\ last.error # "AttributeError"
          ELSE /\ last.outcome = "returned"
               /\ Len(last.notices) = 1
               /\ last.notices[1].category = "PyfarDeprecationWarning"
               /\ last.notices[1].text =
                      "Mode \"before\" and \"after\" will be renamed into"
    /\ \A m \in PadZerosRenamedModes :
          Called(Sym("pad_zeros", m)) =>
              last.outcome = "returned" /\ last.error = "none"

C4_Witness ==
    /\ Called(PadZerosBefore)
    /\ AtOrPast(version, V080)
    /\ last.error = "ValueError"

\* C5: assigning coords.sh_order before 0.8.0 emits the notice and performs
\* the assignment; from 0.8.0 on it raises AttributeError and leaves the
\* stored value as it was.
C5_ShOrderSetter ==
    [][last'.sym = ShOrderSetter =>
          IF AtOrPast(version, V080)
          THEN /\ last'.outcome = "raised"
               /\ last'.error = "AttributeError"
               /\ coords' = coords
          ELSE /\ last'.outcome = "returned"
               /\ Len(last'.notices) = 1
               /\ last'.notices[1].category = "PyfarDeprecationWarning"
               /\ last'.notices[1].text = "This function will be deprecated"
               /\ coords'.sh_order = last'.value]_vars

C5_Witness ==
    /\ last.sym = ShOrderSetter
    /\ ~AtOrPast(version, V080)
    /\ Len(last.notices) = 1
    /\ coords.sh_order = last.value
    /\ coords.sh_order # 0

\* C6: in a run of pre-cutover calls of one guarded symbol every call emits
\* its notice, and the notice names the removal version.
C6_EveryCallWarns ==
    \A s \in GuardedSymbols :
        (last.sym = s /\ streak.ok = streak.n /\ ~PostCutover(s)) =>
            streak.warned = streak.n

\* C7 as stated: every failure of a guarded symbol at or past its removal
\* version is an AttributeError or a ValueError.
C7_TwoKinds ==
    \A s \in GuardedSymbols :
        (Called(s) /\ PostCutover(s) /\ last.outcome = "raised") =>
            last.error \in {"AttributeError", "ValueError"}

\* C7, amended: every failure of a guarded symbol at or past its removal
\* version is an AttributeError, a ValueError or a TypeError, and the
\* TypeError is that of len(Signal) and of nothing else.
C7_ThreeKinds ==
    \A s \in GuardedSymbols :
        (Called(s) /\ PostCutover(s) /\ last.outcome = "raised") =>
            /\ last.error \in {"AttributeError", "ValueError", "TypeError"}
            /\ last.error = "TypeError" <=> s = SignalLen

C7_Witness ==
    /\ Called(SignalLen)
    /\ AtOrPast(version, V080)
    /\ last.outcome = "raised"
    /\ last.error = "TypeError"

\* C8: a plot function called with xscale='linear' (spectrogram: with
\* yscale='linear') emits a deprecation notice saying that the parameter
\* will be removed, and the plot is still produced.
C8_ScaleParameterWarns ==
    \A s \in ScaleSymbols :
        Called(s) =>
            /\ \E i \in 1..Len(last.notices) : Matches(last.notices[i], s)
            /\ last.outcome = "returned"
            /\ last.result # NoResult

\* the plot functions of the xscale and yscale tests, called with a signal only
PlainPlotCalls == {Sym(f, "") : f \in XscaleFunctions \cup {"spectrogram"}}

C10_RenamedFilters ==
    \A f \in FilterNames :
        Called(Sym(f, "")) =>
            IF AtOrPast(version, V050)
            THEN last.outcome = "raised" /\ last.error = "AttributeError"
            ELSE /\ last.outcome = "returned"
                 /\ last.result = FilterResult(Replacement(f), last.value)
                 /\ Len(last.notices) = 1
                 /\ last.notices[1].category = "PyfarDeprecationWarning"
                 /\ last.notices[1].replacement = Replacement(f)

C10_Witness ==
    /\ Called(Sym("butter", ""))
    /\ ~AtOrPast(version, V050)
    /\ last.value = MaxFilterOrder
    /\ last.result = Result("butterworth", MaxFilterOrder)
    /\ Len(last.notices) = 1

\* the steps of a facade function after its type check
LaterSteps == {"style.context", "tight_layout", "Interaction"}

\* C11: every facade function called with an input that is not a Signal
\* raises TypeError before any other step: no style context is entered, no
\* renderer is called, the layout is not changed and no Interaction is made.
C11_TypeErrorFirst ==
    \A f \in FacadeFunctions :
        (last.sym.fn = f /\ last.input # "Signal") =>
            /\ last.outcome = "raised"
            /\ last.error = "TypeError"
            /\ last.result = NoResult
            /\ last.notices = <<>>
            /\ \A i \in 1..Len(last.trace) :
                  /\ last.trace[i].op = "isinstance"
                  /\ last.trace[i].op \notin LaterSteps

C11_Witness ==
    /\ last.sym.fn = "custom_subplots"
    /\ last.input = "ndarray"
    /\ last.error = "TypeError"
    /\ Len(last.trace) = 1

\* the last call ran the type check, then the renderer inside the style
\* context, then tight_layout, and returned the renderer's axes
OrderedUpToLayout ==
    /\ last.outcome = "returned"
    /\ Len(last.trace) >= 4
    /\ last.trace[1].op = "isinstance"
    /\ last.trace[2].op = "style.context"
    /\ last.trace[2].arg \in Styles
    /\ last.trace[3].op = last.result.fn
    /\ last.result # NoResult
    /\ last.trace[4].op = "tight_layout"

\* the last call ended by attaching an Interaction to its axes
InteractionLast ==
    /\ Len(last.trace) = 5
    /\ last.trace[5].op = "Interaction"
    /\ last.trace[5].on \in {"ax", "ax[0]"}

\* C12 as stated: every facade function, custom_subplots included, on a
\* Signal validates the type, renders inside the style context, tightens the
\* layout, attaches an Interaction and returns the renderer's axes.
C12_AllAttachInteraction ==
    \A f \in FacadeFunctions :
        (last.sym.fn = f /\ last.input = "Signal") =>
            OrderedUpToLayout /\ InteractionLast

\* C12, amended: the order holds for every facade function, and every one
\* but custom_subplots attaches an Interaction after tight_layout;
\* custom_subplots returns the axes after tight_layout with no Interaction.
C12_OrderedSteps ==
    \A f \in FacadeFunctions :
        (last.sym.fn = f /\ last.input = "Signal") =>
            /\ OrderedUpToLayout
            /\ IF f = "custom_subplots"
               THEN /\ Len(last.trace) = 4
                    /\ \A i \in 1..4 : last.trace[i].op # "Interaction"
               ELSE InteractionLast

C12_Witness ==
    /\ last.sym.fn = "freq_phase"
    /\ last.input = "Signal"
    /\ last.outcome = "returned"
    /\ last.trace[5] = Step("Interaction", "LineXLog", last.sym.arg, "ax[0]")

\* the version triples of the model, and their order by one number
Triples == (0..MaxMajor) \X (0..MaxMinor) \X (0..MaxPatch)

TripleStr(t) == VersionStr(t[1], t[2], t[3])

Precedence(t) == (t[1] * 1000 + t[2]) * 1000 + t[3]

TripleOf(v) == CHOOSE t \in Triples : TripleStr(t) = v

\* the guarded symbols whose calls pass through the gate
GateSymbols == GuardedSymbols \ ScaleSymbols

====
